---- MODULE Spec2Model ----
(***************************************************************************)
(* The notes backend (src/notes_backend/src/api): a SQLite table of notes  *)
(* behind six request handlers.  Handlers are plain `def` functions, so    *)
(* the framework runs them on worker threads; every handler opens its own  *)
(* connection, and every statement it executes is one atomic step on the   *)
(* shared database file.                                                   *)
(*                                                                         *)
(* An INSERT/UPDATE/DELETE opens an implicit transaction that holds the    *)
(* database write lock until the conn.commit() that follows it; the other  *)
(* connections read the last committed rows in between.  The statement and *)
(* its commit are therefore one step here, taken at the commit.            *)
(*                                                                         *)
(* Text values are sequences of one-character strings.  A timestamp is the *)
(* number of seconds the fixed-width text of datetime('now') stands for,   *)
(* so comparing the texts is comparing the numbers.                        *)
(***************************************************************************)
EXTENDS Integers, Sequences, FiniteSets, TLC

VARIABLES
    db,       \* committed rows of table notes (a set of row records)
    seq,      \* sqlite_sequence entry of notes: the largest rowid ever used
    clock,    \* the storage engine's clock, in seconds
    pc,       \* per process: the statement of its handler it executes next
    req,      \* per process: the request it is handling
    loc,      \* per process: the handler's local variables
    conn,     \* per process: the connection its handler holds open, 0 when none
    out,      \* what the handler that ended in the last step returned or raised
    issued,   \* history: the ids INSERT handed out (lastrowid), in order, each with
              \*          the largest id stored when it was handed out
    deleted,  \* history: the ids whose DELETE affected a row
    touched,  \* history: the ids whose UPDATE affected a row
    schema,   \* the column names of table notes; empty when there is no such table
    startup   \* init_db at startup: how often it has run and how its last run ended

vars == <<db, seq, clock, pc, req, loc, conn, out, issued, deleted, touched, schema, startup>>

-----------------------------------------------------------------------------
(* Bounds of the model *)

MaxId == 2
MaxClock == 1
MaxRuns == 2

Procs == {1, 2}
Ids == 1..MaxId

-----------------------------------------------------------------------------
(* Program constants *)

TitleMinLen == 1
TitleMaxLen == 200
ContentMinLen == 1
ContentMaxLen == 10000
QueryMinLen == 1
QueryMaxLen == 200
LimitMin == 1
LimitMax == 200

-----------------------------------------------------------------------------
(* Absent values: Python's None for a text and for a row *)

NoText == <<"<None>">>
NoRow == [id |-> 0, title |-> NoText, content |-> NoText, created_at |-> 0, updated_at |-> 0]

-----------------------------------------------------------------------------
(* Text functions *)

\* the whitespace str.strip() removes (the ASCII part of it)
IsSpace(c) == c \in {" ", "\t", "\n", "\r", "\f"}

RECURSIVE lstrip(_)
lstrip(s) == IF s # <<>> /\ IsSpace(Head(s)) THEN lstrip(Tail(s)) ELSE s

RECURSIVE rstrip(_)
rstrip(s) ==
    IF s # <<>> /\ IsSpace(s[Len(s)]) THEN rstrip(SubSeq(s, 1, Len(s) - 1)) ELSE s

\* str.strip()
strip(s) == rstrip(lstrip(s))

\* SQLite's LIKE folds the case of the 26 ASCII letters and of nothing else
UpperCase == <<"A", "B", "C", "D", "E", "F", "G", "H", "I", "J", "K", "L", "M",
               "N", "O", "P", "Q", "R", "S", "T", "U", "V", "W", "X", "Y", "Z">>
LowerCase == <<"a", "b", "c", "d", "e", "f", "g", "h", "i", "j", "k", "l", "m",
               "n", "o", "p", "q", "r", "s", "t", "u", "v", "w", "x", "y", "z">>
Lower(c) ==
    IF \E i \in DOMAIN UpperCase : UpperCase[i] = c
    THEN LowerCase[CHOOSE i \in DOMAIN UpperCase : UpperCase[i] = c]
    ELSE c

\* text LIKE pat, no ESCAPE clause: % is any run of characters, _ is any one
\* character, anything else matches itself up to ASCII case
RECURSIVE Like(_, _)
Like(pat, text) ==
    IF pat = <<>> THEN text = <<>>
    ELSE IF Head(pat) = "%"
         THEN Like(Tail(pat), text) \/ (text # <<>> /\ Like(pat, Tail(text)))
         ELSE /\ text # <<>>
              /\ (Head(pat) = "_" \/ Lower(Head(pat)) = Lower(Head(text)))
              /\ Like(Tail(pat), Tail(text))

\* f"%{q_norm}%"
like_pattern(q_norm) == <<"%">> \o q_norm \o <<"%">>

-----------------------------------------------------------------------------
(* Request validation (the request models and the query parameters) *)

NoteCreate_valid(title, content) ==
    /\ Len(title) >= TitleMinLen /\ Len(title) <= TitleMaxLen
    /\ Len(content) >= ContentMinLen /\ Len(content) <= ContentMaxLen

NoteUpdate_valid(title, content) ==
    /\ title # NoText => (Len(title) >= TitleMinLen /\ Len(title) <= TitleMaxLen)
    /\ content # NoText => (Len(content) >= ContentMinLen /\ Len(content) <= ContentMaxLen)

search_valid(q, limit) ==
    /\ Len(q) >= QueryMinLen /\ Len(q) <= QueryMaxLen
    /\ limit >= LimitMin /\ limit <= LimitMax

\* the check left out
nothing_to_update_unchecked(title, content) == FALSE

\* update_note's own check: neither field given
nothing_to_update(title, content) == title = NoText /\ content = NoText

-----------------------------------------------------------------------------
(* Statements on the table *)

\* the SELECT without its WHERE clause: fetchone gives the first row there is
fetch_note_any(table, note_id) ==
    IF table # {} THEN CHOOSE r \in table : TRUE ELSE NoRow

\* SELECT ... WHERE id = ?  (fetchone)
fetch_note(table, note_id) ==
    IF \E r \in table : r.id = note_id
    THEN CHOOSE r \in table : r.id = note_id
    ELSE NoRow

\* ORDER BY updated_at DESC, id ASC
Precedes_id_asc(a, b) ==
    \/ a.updated_at > b.updated_at
    \/ (a.updated_at = b.updated_at /\ a.id < b.id)

\* ORDER BY updated_at DESC, id DESC
Precedes(a, b) ==
    \/ a.updated_at > b.updated_at
    \/ (a.updated_at = b.updated_at /\ a.id > b.id)

RECURSIVE order_by(_)
order_by(rows) ==
    IF rows = {} THEN <<>>
    ELSE LET first == CHOOSE r \in rows : \A o \in rows \ {r} : Precedes(r, o)
         IN <<first>> \o order_by(rows \ {first})

\* SELECT ... FROM notes ORDER BY updated_at DESC, id DESC  (fetchall)
list_rows(table) == order_by(table)

\* WHERE title LIKE ? COLLATE NOCASE OR content LIKE ? COLLATE NOCASE
where_like(r, like) == Like(like, r.title) \/ Like(like, r.content)

\* LIMIT ? + 1
Limit_one_more(s, n) == SubSeq(s, 1, IF Len(s) < n + 1 THEN Len(s) ELSE n + 1)

\* LIMIT ?
Limit(s, n) == SubSeq(s, 1, IF Len(s) < n THEN Len(s) ELSE n)

\* SELECT ... WHERE ... ORDER BY updated_at DESC, id DESC LIMIT ?  (fetchall)
search_rows(table, like, limit) ==
    Limit(order_by({r \in table : where_like(r, like)}), limit)

\* SELECT COUNT(*) ... WHERE ...
count_rows(table, like) == Cardinality({r \in table : where_like(r, like)})

\* the largest rowid in the table, 0 when it is empty
MaxRowid(table) ==
    IF table = {} THEN 0
    ELSE CHOOSE m \in {r.id : r \in table} : \A r \in table : r.id <= m

\* id INTEGER PRIMARY KEY, without AUTOINCREMENT: one more than the largest rowid stored
next_rowid_stored(table, sequence) == MaxRowid(table) + 1

\* id INTEGER PRIMARY KEY AUTOINCREMENT: one more than the largest rowid ever used
next_rowid(table, sequence) ==
    (IF sequence > MaxRowid(table) THEN sequence ELSE MaxRowid(table)) + 1

\* the INSERT without updated_at: the column's DEFAULT (datetime('now')) fills it
insert_row_default(table, note_id, title, content, ts) ==
    table \cup {[id |-> note_id, title |-> title, content |-> content,
                 created_at |-> ts, updated_at |-> clock]}

\* INSERT INTO notes (title, content, created_at, updated_at) VALUES (?, ?, ?, ?)
insert_row(table, note_id, title, content, ts) ==
    table \cup {[id |-> note_id, title |-> title, content |-> content,
                 created_at |-> ts, updated_at |-> ts]}

\* INSERT OR REPLACE in place of the UPDATE: the row is written also when none has the id
update_row_upsert(table, note_id, title, content, ts) ==
    {r \in table : r.id # note_id} \cup
        {[id |-> note_id, title |-> title, content |-> content,
          created_at |-> (IF \E r \in table : r.id = note_id
                          THEN (CHOOSE r \in table : r.id = note_id).created_at ELSE ts),
          updated_at |-> ts]}

\* the UPDATE with "AND (title <> ? OR content <> ?)": a row that has the values stays as it is
update_row_if_changed(table, note_id, title, content, ts) ==
    {IF r.id = note_id /\ (r.title # title \/ r.content # content)
     THEN [r EXCEPT !.title = title, !.content = content, !.updated_at = ts]
     ELSE r : r \in table}

\* UPDATE notes SET title = ?, content = ?, updated_at = ? WHERE id = ?
update_row(table, note_id, title, content, ts) ==
    {IF r.id = note_id
     THEN [r EXCEPT !.title = title, !.content = content, !.updated_at = ts]
     ELSE r : r \in table}

\* DELETE FROM notes WHERE id = ?
delete_row(table, note_id) == {r \in table : r.id # note_id}

\* cursor.rowcount of the UPDATE / DELETE above
rowcount(table, note_id) == Cardinality({r \in table : r.id = note_id})

\* SELECT datetime('now')
now_iso == clock

\* required_cols of init_db
required_cols == {"id", "title", "content", "created_at", "updated_at"}

\* DROP TABLE IF EXISTS notes; CREATE TABLE notes (...)
create_table_anew(cols) == required_cols

\* CREATE TABLE IF NOT EXISTS notes (...): the columns of the table afterwards
create_table_if_not_exists(cols) == IF cols = {} THEN required_cols ELSE cols

\* missing = required_cols - existing_cols
missing_cols(existing_cols) == required_cols \ existing_cols

-----------------------------------------------------------------------------
(* Process state *)

NoReq == [op |-> "none", id |-> 0, title |-> NoText, content |-> NoText, q |-> NoText, limit |-> 0]
NoLoc == [ts |-> 0, note_id |-> 0, new_title |-> NoText, new_content |-> NoText, rows |-> <<>>]
NoOut == [proc |-> 0, req |-> NoReq, status |-> 0, note |-> NoRow, items |-> <<>>, total |-> 0]

Init ==
    /\ db = {}
    /\ seq = 0
    /\ clock = 0
    /\ pc = [p \in Procs |-> "idle"]
    /\ req = [p \in Procs |-> NoReq]
    /\ loc = [p \in Procs |-> NoLoc]
    /\ conn = [p \in Procs |-> 0]
    /\ out = NoOut
    /\ issued = <<>>
    /\ deleted = {}
    /\ touched = {}
    /\ schema = required_cols
    /\ startup = [runs |-> 1, status |-> "ok", missing |-> {}]

\* one connection object for the whole module, handed to every caller
connect_shared(conns) == 1

\* sqlite3.connect(db_path): a connection object that no handler holds
connect(conns) == CHOOSE h \in 1..Cardinality(Procs) : \A o \in Procs : conns[o] # h

\* a request arrives at idle process p
Accept(p) == pc[p] = "idle"

\* the handler of p goes on to statement `next` with locals l; its connection is open
Goto(p, r, next, l) ==
    /\ pc' = [pc EXCEPT ![p] = next]
    /\ req' = [req EXCEPT ![p] = r]
    /\ loc' = [loc EXCEPT ![p] = l]
    /\ conn' = [conn EXCEPT ![p] = IF conn[p] # 0 THEN conn[p] ELSE connect(conn)]
    /\ out' = NoOut
    /\ UNCHANGED <<schema, startup>>

\* the handler of p, serving r, ends with status, note, items and total:
\* get_connection's finally closes the connection
Finish(p, r, status, note, items, total) ==
    /\ pc' = [pc EXCEPT ![p] = "idle"]
    /\ req' = [req EXCEPT ![p] = NoReq]
    /\ loc' = [loc EXCEPT ![p] = NoLoc]
    /\ conn' = [conn EXCEPT ![p] = 0]
    /\ out' = [proc |-> p, req |-> r, status |-> status, note |-> note,
               items |-> items, total |-> total]
    /\ UNCHANGED <<schema, startup>>

-----------------------------------------------------------------------------
(* Handlers *)

list_notes(p) ==
    /\ Accept(p)
    /\ Finish(p, [NoReq EXCEPT !.op = "list"], 200, NoRow, list_rows(db), 0)
    /\ UNCHANGED <<db, seq, clock, issued, deleted, touched>>

get_note(p, note_id) ==
    /\ Accept(p)
    /\ LET r == [NoReq EXCEPT !.op = "get", !.id = note_id]
           row == fetch_note(db, note_id)
       IN IF row = NoRow
          THEN Finish(p, r, 404, NoRow, <<>>, 0)
          ELSE Finish(p, r, 200, row, <<>>, 0)
    /\ UNCHANGED <<db, seq, clock, issued, deleted, touched>>

\* create_note, up to the clock read: the request model, get_connection, now_iso
create_note(p, title, content) ==
    /\ Accept(p)
    /\ LET r == [NoReq EXCEPT !.op = "create", !.title = title, !.content = content]
       IN IF ~NoteCreate_valid(title, content)
          THEN Finish(p, r, 422, NoRow, <<>>, 0)
          ELSE /\ seq + Cardinality({o \in Procs : pc[o] = "c_insert"}) < MaxId
               /\ Goto(p, r, "c_insert", [NoLoc EXCEPT !.ts = now_iso])
    /\ UNCHANGED <<db, seq, clock, issued, deleted, touched>>

\* the INSERT, which sets cur.lastrowid, and conn.commit()
create_insert(p) ==
    /\ pc[p] = "c_insert"
    /\ LET note_id == next_rowid(db, seq)
       IN /\ db' = insert_row(db, note_id, strip(req[p].title), req[p].content, loc[p].ts)
          /\ seq' = note_id
          /\ issued' = Append(issued, [id |-> note_id, top |-> MaxRowid(db)])
          /\ Goto(p, req[p], "c_fetch", [loc[p] EXCEPT !.note_id = note_id])
    /\ UNCHANGED <<clock, deleted, touched>>

\* the read-back of create_note and its return
create_fetch(p) ==
    /\ pc[p] = "c_fetch"
    /\ Finish(p, req[p], 201, fetch_note(db, loc[p].note_id), <<>>, 0)
    /\ UNCHANGED <<db, seq, clock, issued, deleted, touched>>

\* a full-record overwrite: an omitted content is stored as the empty text
merge_content_overwrite(content, existing) == IF content # NoText THEN content ELSE <<>>

\* new_title, new_content of update_note
merge_title(title, existing) == IF title # NoText THEN strip(title) ELSE existing.title
merge_content(content, existing) == IF content # NoText THEN content ELSE existing.content

\* update_note, up to the merge: the request model, the handler's own check,
\* get_connection, the existence read and the computation of the new values
update_note(p, note_id, title, content) ==
    /\ Accept(p)
    /\ LET r == [NoReq EXCEPT !.op = "update", !.id = note_id,
                              !.title = title, !.content = content]
           existing == fetch_note(db, note_id)
       IN IF ~NoteUpdate_valid(title, content) \/ nothing_to_update(title, content)
          THEN Finish(p, r, 422, NoRow, <<>>, 0)
          ELSE IF existing = NoRow
               THEN Finish(p, r, 404, NoRow, <<>>, 0)
               ELSE Goto(p, r, "u_now",
                         [NoLoc EXCEPT !.note_id = note_id,
                                       !.new_title = merge_title(title, existing),
                                       !.new_content = merge_content(content, existing)])
    /\ UNCHANGED <<db, seq, clock, issued, deleted, touched>>

\* ts = now_iso(conn) of update_note
update_now(p) ==
    /\ pc[p] = "u_now"
    /\ Goto(p, req[p], "u_write", [loc[p] EXCEPT !.ts = now_iso])
    /\ UNCHANGED <<db, seq, clock, issued, deleted, touched>>

\* the UPDATE and conn.commit()
update_write(p) ==
    /\ pc[p] = "u_write"
    /\ db' = update_row(db, loc[p].note_id, loc[p].new_title, loc[p].new_content, loc[p].ts)
    /\ touched' = IF rowcount(db, loc[p].note_id) > 0
                  THEN touched \cup {loc[p].note_id} ELSE touched
    /\ Goto(p, req[p], "u_fetch", [NoLoc EXCEPT !.note_id = loc[p].note_id])
    /\ UNCHANGED <<seq, clock, issued, deleted>>

\* the read-back of update_note and its return
update_fetch(p) ==
    /\ pc[p] = "u_fetch"
    /\ Finish(p, req[p], 200, fetch_note(db, loc[p].note_id), <<>>, 0)
    /\ UNCHANGED <<db, seq, clock, issued, deleted, touched>>

\* delete_note: get_connection, the DELETE, conn.commit(), the rowcount check
delete_note(p, note_id) ==
    /\ Accept(p)
    /\ db' = delete_row(db, note_id)
    /\ deleted' = IF rowcount(db, note_id) > 0 THEN deleted \cup {note_id} ELSE deleted
    /\ LET r == [NoReq EXCEPT !.op = "delete", !.id = note_id]
       IN IF rowcount(db, note_id) = 0
          THEN Finish(p, r, 404, NoRow, <<>>, 0)
          ELSE Finish(p, r, 204, NoRow, <<>>, 0)
    /\ UNCHANGED <<seq, clock, issued, touched>>

\* search_notes, up to the first query: the parameter checks, get_connection, the rows
search_notes(p, q, limit) ==
    /\ Accept(p)
    /\ LET r == [NoReq EXCEPT !.op = "search", !.q = q, !.limit = limit]
       IN IF ~search_valid(q, limit)
          THEN Finish(p, r, 422, NoRow, <<>>, 0)
          ELSE Goto(p, r, "s_count",
                    [NoLoc EXCEPT !.rows = search_rows(db, like_pattern(strip(q)), limit)])
    /\ UNCHANGED <<db, seq, clock, issued, deleted, touched>>

\* the COUNT(*) query of search_notes and its return
search_count(p) ==
    /\ pc[p] = "s_count"
    /\ Finish(p, req[p], 200, NoRow, loc[p].rows,
              count_rows(db, like_pattern(strip(req[p].q))))
    /\ UNCHANGED <<db, seq, clock, issued, deleted, touched>>

\* the statement the handler of p is at raises sqlite3.Error: the handler is left
\* through get_connection's finally, an uncommitted statement changes nothing
statement_fails(p) ==
    /\ pc[p] # "idle"
    /\ Finish(p, req[p], 500, NoRow, <<>>, 0)
    /\ UNCHANGED <<db, seq, clock, issued, deleted, touched>>

\* the storage engine's clock advances
Tick ==
    /\ clock < MaxClock
    /\ clock' = clock + 1
    /\ out' = NoOut
    /\ UNCHANGED <<db, seq, pc, req, loc, conn, issued, deleted, touched, schema, startup>>

\* init_db, run when the application starts (no request is being handled): CREATE
\* TABLE IF NOT EXISTS, the comparison of the columns, RuntimeError or the commit;
\* its connection is opened and closed within the step
init_db ==
    /\ \A p \in Procs : pc[p] = "idle"
    /\ startup.runs < MaxRuns
    /\ schema' = create_table_if_not_exists(schema)
    /\ LET missing == missing_cols(schema')
       IN startup' = [runs |-> startup.runs + 1,
                      status |-> IF missing # {} THEN "error" ELSE "ok",
                      missing |-> missing]
    /\ out' = NoOut
    /\ UNCHANGED <<db, seq, clock, pc, req, loc, conn, issued, deleted, touched>>

-----------------------------------------------------------------------------------------------------------------------------------------------------
(* The system *)

\* the statements of a handler after its first
Step(p) ==
    \/ create_insert(p)
    \/ create_fetch(p)
    \/ update_now(p)
    \/ update_write(p)
    \/ update_fetch(p)
    \/ search_count(p)

\* a request arrives and its handler runs its first statement; C and U are the
\* <<title, content>> payloads of Create and Update, Q the queries, L the limits
Request(p, C, U, Q, L) ==
    \/ list_notes(p)
    \/ \E id \in Ids : get_note(p, id)
    \/ \E c \in C : create_note(p, c[1], c[2])
    \/ \E id \in Ids, u \in U : update_note(p, id, u[1], u[2])
    \/ \E id \in Ids : delete_note(p, id)
    \/ \E q \in Q, l \in L : search_notes(p, q, l)

\* the callers in P, their requests interleaved statement by statement
System(P, C, U, Q, L) == \E p \in P : Request(p, C, U, Q, L) \/ Step(p)

-----------------------------------------------------------------------------
(* Inputs *)

Creates == {<<<<" ", "a">>, <<"x">>>>}
TitleOnly == {<<<<"b", " ">>, NoText>>}
Updates == TitleOnly \cup {<<NoText, <<"y">>>>, <<NoText, NoText>>}
Queries == {<<"A">>}
Limits == {1, 2}

\* for a single caller: also payloads the request models refuse, and as queries one
\* with a LIKE wildcard, one to trim and one the parameter check refuses
SeqCreates == Creates \cup {<<<<>>, <<"x">>>>}
SeqUpdates == Updates \cup {<<NoText, <<>>>>}
SeqQueries == {<<"_">>, <<" ", "Y">>, <<>>}

\* titles the request models accept that are whitespace only
BlankCreates == Creates \cup {<<<<" ">>, <<"x">>>>}
BlankUpdates == TitleOnly \cup {<<<<" ", " ">>, NoText>>}

\* Updates that give what Creates stores: both fields, and the title with a blank to trim
SameUpdates == {<<<<"a">>, <<"x">>>>, <<<<"a", " ">>, NoText>>}

-----------------------------------------------------------------------------
(* Specifications *)

\* concurrent callers
Next == System(Procs, Creates, Updates, Queries, Limits) \/ Tick
Spec == Init /\ [][Next]_vars

\* one caller, so one request at a time
SeqNext == System({1}, SeqCreates, SeqUpdates, SeqQueries, Limits) \/ Tick
SeqSpec == Init /\ [][SeqNext]_vars

\* concurrent callers while the clock stands still: no statement tests a timestamp,
\* so which rows exist and which ids they carry is the same at any clock
IdNext == System(Procs, Creates, TitleOnly, Queries, {1})
IdSpec == Init /\ [][IdNext]_vars

\* one caller whose titles may be whitespace only, while the clock stands still
BlankNext == System({1}, BlankCreates, BlankUpdates, Queries, {1})
BlankSpec == Init /\ [][BlankNext]_vars

\* a row of a table with the columns cols, as found in the database file at startup
FoundRow(cols) ==
    [c \in cols |-> IF c = "id" THEN 1
                    ELSE IF c = "title" THEN <<"a">>
                    ELSE IF c = "content" THEN <<"x">>
                    ELSE 0]

\* the application starts on a database file that has no table notes, or has one with
\* any of the required columns and with or without a row; requests are served once
\* init_db has succeeded
SchemaInit ==
    /\ schema \in SUBSET required_cols
    /\ db \in IF schema = {} THEN {{}} ELSE {{}, {FoundRow(schema)}}
    /\ seq = Cardinality(db)
    /\ clock = 0
    /\ pc = [p \in Procs |-> "idle"]
    /\ req = [p \in Procs |-> NoReq]
    /\ loc = [p \in Procs |-> NoLoc]
    /\ conn = [p \in Procs |-> 0]
    /\ out = NoOut
    /\ issued = <<>>
    /\ deleted = {}
    /\ touched = {}
    /\ startup = [runs |-> 0, status |-> "none", missing |-> {}]
SchemaNext ==
    \/ init_db
    \/ (startup.status = "ok" /\ System({1}, Creates, TitleOnly, Queries, {1}))
SchemaSpec == SchemaInit /\ [][SchemaNext]_vars

\* one caller that updates notes to the values they have
SameNext == System({1}, Creates, SameUpdates, Queries, {1}) \/ Tick
SameSpec == Init /\ [][SameNext]_vars

\* concurrent callers whose statements may fail
ConnNext == IdNext \/ \E p \in Procs : statement_fails(p)
ConnSpec == Init /\ [][ConnNext]_vars

-----------------------------------------------------------------------------
(* Ids *)

\* C1: the ids that INSERT hands out grow strictly, in the order of the inserts
\* (so a Create gets an id above that of every Create before it and no id is handed
\* out twice), and the note a Create returns carries the id handed to it or to an
\* earlier insert, never another one
IdsStrictlyIncrease ==
    /\ \A i, j \in DOMAIN issued : i < j => issued[i].id < issued[j].id
    /\ (out.req.op = "create" /\ out.note # NoRow) =>
           \E i \in DOMAIN issued : issued[i].id = out.note.id

\* an id was handed out when the note holding the highest id so far was gone
CreateAfterDeleteOfHighest ==
    \E i \in DOMAIN issued : i > 1 /\ issued[i].top < issued[i - 1].id

\* C2: an id whose Delete succeeded is stored no more: Get of it, List and Search,
\* run in any later state, do not find it, and Get and List did not return it
DeletedStaysGone ==
    \A id \in deleted :
        /\ fetch_note(db, id) = NoRow
        /\ \A i \in DOMAIN list_rows(db) : list_rows(db)[i].id # id
        /\ \A q \in Queries \cup SeqQueries, l \in Limits :
               LET found == search_rows(db, like_pattern(strip(q)), l)
               IN \A i \in DOMAIN found : found[i].id # id
        /\ (out.req.op = "get" /\ out.req.id = id) => out.status = 404
        /\ out.req.op = "list" => \A i \in DOMAIN out.items : out.items[i].id # id

\* the UPDATE of a request found no row, its note deleted since its existence read
UpdateWroteAfterDelete ==
    \E p \in Procs :
        /\ pc[p] = "u_fetch"
        /\ loc[p].note_id \in deleted
        /\ loc[p].note_id \notin touched

-----------------------------------------------------------------------------
(* Update *)

\* s is t without its leading and its trailing whitespace
IsTrimOf(s, t) ==
    \E i \in 1..(Len(t) + 1), j \in 0..Len(t) :
        /\ i <= j + 1
        /\ s = [k \in 1..(j - i + 1) |-> t[i + k - 1]]
        /\ \A k \in 1..(i - 1) : IsSpace(t[k])
        /\ \A k \in (j + 1)..Len(t) : IsSpace(t[k])
        /\ s # <<>> => (~IsSpace(s[1]) /\ ~IsSpace(s[Len(s)]))

\* C3: the UPDATE of a request on a stored note stores the given title, trimmed, and
\* the given content, keeps the stored value of a field not given, keeps the note's
\* id and created_at, and keeps every other note as it is
UpdateMergesFields ==
    [][\A p \in Procs :
          (pc[p] = "u_write" /\ pc'[p] = "u_fetch" /\ fetch_note(db, req[p].id) # NoRow) =>
              LET old == fetch_note(db, req[p].id)
                  new == fetch_note(db', req[p].id)
              IN /\ new # NoRow
                 /\ IF req[p].title # NoText
                    THEN IsTrimOf(new.title, req[p].title)
                    ELSE new.title = old.title
                 /\ IF req[p].content # NoText
                    THEN new.content = req[p].content
                    ELSE new.content = old.content
                 /\ new.id = old.id
                 /\ new.created_at = old.created_at
                 /\ db' \ {new} = db \ {old}]_vars

\* a title-only Update was written to one of two notes, later than the note's creation
TitleOnlyUpdateWritten ==
    \E p \in Procs :
        /\ pc[p] = "u_fetch"
        /\ req[p].title = <<"b", " ">>
        /\ req[p].content = NoText
        /\ Cardinality(db) = 2
        /\ LET new == fetch_note(db, req[p].id)
           IN /\ new.title = <<"b">>
              /\ new.content = <<"y">>
              /\ new.created_at < new.updated_at

-----------------------------------------------------------------------------
(* Timestamps *)

\* C4: the note Create returns has created_at = updated_at, and so has every stored
\* note that no UPDATE has written
UntouchedNotesKeepCreationTime ==
    /\ (out.req.op = "create" /\ out.status = 201) =>
           (out.note # NoRow /\ out.note.created_at = out.note.updated_at)
    /\ \A r \in db : r.id \notin touched => r.updated_at = r.created_at

\* Create returned a note made after the clock advanced, another note having been updated
CreateReturnedLaterNote ==
    /\ out.req.op = "create"
    /\ out.status = 201
    /\ out.note.created_at > 0
    /\ touched # {}
    /\ out.note.id \notin touched

\* C5: every stored note has updated_at >= created_at, and no step lowers the
\* updated_at of a note (the clock of the model never goes backwards)
UpdatedAtNeverDecreases ==
    [][/\ \A r \in db' : r.updated_at >= r.created_at
       /\ \A r \in db, n \in db' : r.id = n.id => n.updated_at >= r.updated_at]_vars

-----------------------------------------------------------------------------
(* List *)

\* C6: List returns every stored note exactly once, a note with a later updated_at
\* before one with an earlier, and of two with the same updated_at the higher id first
ListIsOrdered ==
    out.req.op = "list" =>
        LET L == out.items
        IN /\ {L[i] : i \in DOMAIN L} = db
           /\ Len(L) = Cardinality(db)
           /\ \A i, j \in DOMAIN L :
                  (\/ L[i].updated_at > L[j].updated_at
                   \/ (L[i].updated_at = L[j].updated_at /\ L[i].id > L[j].id)) => i < j

\* List returned two notes with the same updated_at
ListReturnedTie ==
    /\ out.req.op = "list"
    /\ Len(out.items) = 2
    /\ out.items[1].updated_at = out.items[2].updated_at

-----------------------------------------------------------------------------
(* Search *)

\* C7: a Search result has total >= the number of its items, and total = the number
\* of its items exactly when total <= limit
SearchTotalCoversItems ==
    (out.req.op = "search" /\ out.status = 200) =>
        /\ out.total >= Len(out.items)
        /\ (out.total = Len(out.items)) <=> (out.total <= out.req.limit)

\* text contains q, letters compared without case
Contains(text, q) ==
    \E i \in 0..(Len(text) - Len(q)) :
        \A k \in 1..Len(q) : Lower(text[i + k]) = Lower(q[k])

\* C8: the total of a Search counts exactly the stored notes whose title or content
\* contains the trimmed query, letters compared without case
SearchCountsSubstringMatches ==
    (out.req.op = "search" /\ out.status = 200) =>
        out.total = Cardinality({r \in db : \/ Contains(r.title, strip(out.req.q))
                                           \/ Contains(r.content, strip(out.req.q))})

\* C9: with no other caller, the items of a Search are the first min(limit, total)
\* of the notes that the query selects, in the order List returns them; when it
\* selects none, items is empty and total is 0
SearchItemsArePrefixOfList ==
    (out.req.op = "search" /\ out.status = 200) =>
        LET Selected(r) == where_like(r, like_pattern(strip(out.req.q)))
            M == SelectSeq(list_rows(db), Selected)
            n == IF out.req.limit < out.total THEN out.req.limit ELSE out.total
        IN /\ out.items = [i \in 1..n |-> M[i]]
           /\ M = <<>> => (out.items = <<>> /\ out.total = 0)

\* Search returned one of two selected notes
SearchTruncated ==
    /\ out.req.op = "search"
    /\ out.status = 200
    /\ out.req.limit = 1
    /\ out.total = 2
    /\ Len(out.items) = 1

-----------------------------------------------------------------------------
(* Validation *)

\* the request p is handling, or has just answered
Handled(p) == IF pc[p] # "idle" THEN req[p] ELSE IF out.proc = p THEN out.req ELSE NoReq

\* C10: an Update with neither title nor content ends at once with a validation
\* error, for any id, and changes no row and no id counter
EmptyUpdateIsRefused ==
    [][\A p \in Procs :
          (/\ pc[p] = "idle"
           /\ Handled(p)'.op = "update"
           /\ Handled(p)'.title = NoText
           /\ Handled(p)'.content = NoText
           /\ <<pc[p], out>>' # <<pc[p], out>>) =>
              /\ out'.proc = p
              /\ out'.status = 422
              /\ pc'[p] = "idle"
              /\ db' = db
              /\ seq' = seq]_vars

\* an Update with no field was refused for a stored note last written before now
EmptyUpdateRefusedOnStoredNote ==
    /\ out.req.op = "update"
    /\ out.req.title = NoText
    /\ out.req.content = NoText
    /\ out.status = 422
    /\ fetch_note(db, out.req.id) # NoRow
    /\ fetch_note(db, out.req.id).updated_at < clock

-----------------------------------------------------------------------------
(* Not found *)

\* C11: Get, Update with at least one (acceptable) field and Delete of an id that no
\* stored note carries end at once with not-found and change no row and no id counter
AbsentIdIsNotFound ==
    [][\A p \in Procs :
          (/\ pc[p] = "idle"
           /\ <<pc[p], out>>' # <<pc[p], out>>
           /\ Handled(p)'.op \in {"get", "update", "delete"}
           /\ Handled(p)'.op = "update" =>
                  /\ NoteUpdate_valid(Handled(p)'.title, Handled(p)'.content)
                  /\ (Handled(p)'.title # NoText \/ Handled(p)'.content # NoText)
           /\ \A r \in db : r.id # Handled(p)'.id) =>
              /\ out'.proc = p
              /\ out'.status = 404
              /\ pc'[p] = "idle"
              /\ db' = db
              /\ seq' = seq]_vars

\* Delete of an id already deleted was answered not-found while another note is stored
DeleteOfDeletedNotFound ==
    /\ out.req.op = "delete"
    /\ out.status = 404
    /\ out.req.id \in deleted
    /\ db # {}

-----------------------------------------------------------------------------
(* Stored titles *)

\* C12: every stored note has a title of 1 to 200 characters that neither begins nor
\* ends with whitespace
StoredTitlesAreTrimmed ==
    \A r \in db :
        /\ Len(r.title) >= TitleMinLen
        /\ Len(r.title) <= TitleMaxLen
        /\ ~IsSpace(r.title[1])
        /\ ~IsSpace(r.title[Len(r.title)])

-----------------------------------------------------------------------------
(* Read-back *)

\* C13: the read-back of a Create finds the note its INSERT stored, and Create returns
\* it: a present record with the id handed out, the given title trimmed, the given content
CreateReturnsInsertedNote ==
    [][\A p \in Procs :
          (pc[p] = "c_fetch" /\ pc'[p] = "idle") =>
              /\ out'.proc = p
              /\ out'.note # NoRow
              /\ out'.note.id = loc[p].note_id
              /\ IsTrimOf(out'.note.title, req[p].title)
              /\ out'.note.content = req[p].content]_vars

-----------------------------------------------------------------------------
(* Schema initialization *)

-----------------------------------------------------------------------------
(* Touch *)

\* C15: the timestamp of an Update is the clock value at its clock read; its UPDATE
\* stores that timestamp as updated_at also when every given field equals the stored
\* one, and then keeps title and content as they are; the same Update applied to the
\* note it wrote would store the same title and content again
SameValuesUpdateTouches ==
    [][\A p \in Procs :
          /\ (pc[p] = "u_now" /\ pc'[p] = "u_write") => loc'[p].ts = clock
          /\ (pc[p] = "u_write" /\ pc'[p] = "u_fetch" /\ fetch_note(db, req[p].id) # NoRow) =>
                 LET old == fetch_note(db, req[p].id)
                     new == fetch_note(db', req[p].id)
                 IN /\ new.updated_at = loc[p].ts
                    /\ ((req[p].title # NoText => req[p].title = old.title) /\
                        (req[p].content # NoText => req[p].content = old.content)) =>
                           (new.title = old.title /\ new.content = old.content)
                    /\ req[p].title # NoText => IsTrimOf(new.title, new.title) /\
                                                 IsTrimOf(new.title, req[p].title)
                    /\ req[p].content # NoText => new.content = req[p].content]_vars

\* an Update giving the stored title and content was written after the clock advanced
SameValuesWrittenLater ==
    \E p \in Procs :
        /\ pc[p] = "u_fetch"
        /\ req[p].title = <<"a">>
        /\ req[p].content = <<"x">>
        /\ LET new == fetch_note(db, req[p].id)
           IN /\ new.title = <<"a">>
              /\ new.content = <<"x">>
              /\ new.updated_at > new.created_at

-----------------------------------------------------------------------------
(* Concurrent updates *)

\* C16: the UPDATE of a request that omits a field leaves the stored value of that
\* field as it is, whatever other callers wrote since the request read the note
OmittedFieldIsKept ==
    [][\A p \in Procs :
          (pc[p] = "u_write" /\ pc'[p] = "u_fetch" /\ fetch_note(db, req[p].id) # NoRow) =>
              LET old == fetch_note(db, req[p].id)
                  new == fetch_note(db', req[p].id)
              IN /\ req[p].title = NoText => new.title = old.title
                 /\ req[p].content = NoText => new.content = old.content]_vars

\* C17: an Update with at least one (acceptable) field ends either with not-found or
\* with a present record that carries the id asked for, and no deleted id is stored
UpdateReturnsNoteOrNotFound ==
    /\ (/\ out.req.op = "update"
        /\ NoteUpdate_valid(out.req.title, out.req.content)
        /\ (out.req.title # NoText \/ out.req.content # NoText)) =>
           \/ (out.status = 404 /\ out.note = NoRow)
           \/ (out.status = 200 /\ out.note # NoRow /\ out.note.id = out.req.id)
    /\ \A r \in db : r.id \notin deleted

-----------------------------------------------------------------------------
(* Most recently written first *)

\* C18: a List that follows at once on a successful Create or Update returns the note
\* which that Create or Update returned as its first item
ListPutsLastWrittenFirst ==
    [][(/\ out.req.op \in {"create", "update"}
        /\ out.status \in {200, 201}
        /\ out.note # NoRow
        /\ out'.req.op = "list") =>
           (out'.items # <<>> /\ out'.items[1].id = out.note.id)]_vars

-----------------------------------------------------------------------------
(* Connections *)

\* C19: a handler holds a connection exactly while it is in progress, the same one
\* from its first statement to its end, and no other handler holds that connection:
\* after every step, a return, a not-found, a validation error or a failing statement,
\* the idle processes hold none, so with no handler in progress none is open
ConnectionsAreScoped ==
    [][/\ \A p \in Procs : (conn'[p] # 0) <=> (pc'[p] # "idle")
       /\ \A p, o \in Procs : (p # o /\ conn'[p] # 0) => conn'[p] # conn'[o]
       /\ \A p \in Procs : (pc[p] # "idle" /\ pc'[p] # "idle") => conn'[p] = conn[p]
       /\ (\A p \in Procs : pc'[p] = "idle") =>
              Cardinality({p \in Procs : conn'[p] # 0}) = 0]_vars

\* a statement failed while another handler, which opened its connection second, goes on
StatementFailedBesideOpenConnection ==
    /\ out.status = 500
    /\ \E p \in Procs : pc[p] # "idle" /\ conn[p] = 2 /\ conn[out.proc] = 0
====
